---- MODULE Spec2Model ----
(***************************************************************************)
(* Model of python-foreman's client generation (src/foreman/client.py):    *)
(* the derivation of method names from apipie definitions, the assembly of *)
(* resources in Foreman._generate_api_defs, and the functions produced by  *)
(* MethodAPIDescription.generate_func.                                     *)
(*                                                                         *)
(* Python strings are sequences of one-character strings, so that the      *)
(* string and regular-expression operations of the code are computed       *)
(* character by character.                                                 *)
(***************************************************************************)
EXTENDS Integers, Sequences, FiniteSets, TLC

VARIABLES
    data,             \* data["docs"]["resources"]: resource name -> list of methods
    order,            \* iteration order of the resources mapping (client.py:812)
    pc,               \* position inside _generate_api_defs
    res_idx,          \* index in order of the resource being processed
    api_idx,          \* index of the next API variant inside parse_resource_definition
    new_dict,         \* new_dict of parse_resource_definition (new_resource of the caller)
    foreign_methods,  \* foreign_methods of parse_resource_definition
    resource_defs,    \* resource_defs of _generate_api_defs
    attached,         \* resource names set as attributes of the client (client.py:879)
    parsed,           \* resources whose parse_resource_definition call has returned
    foreign_bound,    \* foreign methods bound so far (line 863), as <<resource, name>>
    method_api,       \* the MethodAPIDescription whose function is generated and called
    as_global,        \* the as_global argument of generate_func
    func,             \* the function generate_func returns
    cpc,              \* position inside generate_func and the generated function
    args,             \* the arguments the caller passes, by local name
    _vars_,           \* _vars_ of the generated function
    _url,             \* _url of the generated function
    _kwargs,          \* _kwargs of the generated function
    primitive_calls,  \* the calls made on self._foreman, in order
    primitive_result, \* what the called primitive returned or raised
    OLD_REQ,          \* OLD_REQ of the module: the requests library is a 0.x release
    session_requests, \* the HTTP requests made on self.session, in order
    response,         \* the response the server gave to the last request
    result,           \* what the generated function returned or raised
    use_cache,        \* use_cache of Foreman.__init__
    strict_cache,     \* strict_cache of Foreman.__init__
    version,          \* self.version, parsed
    cache_dirs,       \* the versions of the definition files in each cache directory
    remote_ok,        \* the server answers the request for the definitions with res.ok
    lpc,              \* position inside _get_defs
    lookups,          \* the sources _get_defs has consulted, in order
    defs_found,       \* the definitions _get_defs returns, or the exception it raises
    timeout,          \* self.timeout of the client
    timeout_calls,    \* the calls of the timeout methods made so far, in order
    timeout_got,      \* what the last get_timeout call returned or raised
    plugin_defs,      \* the DEFS items of the plugin modules, in iteration order
    plugins_resource, \* resource_data of MetaForeman.__new__
    client_attrs,     \* the attributes the plugins resource set on the client
    ppc,              \* position inside the loading of the plugins
    what,             \* what of fit_to_cols
    indent,           \* indent of fit_to_cols
    cols,             \* cols of fit_to_cols
    lines,            \* lines of fit_to_cols
    fpc,              \* position inside fit_to_cols
    objects,          \* the parameter dicts in memory, by identity
    raw_params,       \* the identities of the parameter dicts of the raw method
    descriptors,      \* the MethodAPIDescription objects built from the raw method
    generated         \* the descriptors generate_func has been called on

\* the state of Foreman._generate_api_defs
avars == <<data, order, pc, res_idx, api_idx, new_dict, foreign_methods,
           resource_defs, attached, parsed, foreign_bound>>

\* the state of one generated function and its call
cvars == <<method_api, as_global, func, cpc, args, _vars_, _url, _kwargs, primitive_calls,
           primitive_result, result, OLD_REQ, session_requests, response>>

\* the state of Foreman._get_defs
lvars == <<use_cache, strict_cache, version, cache_dirs, remote_ok, lpc, lookups,
           defs_found>>

\* the timeouts of the client
tvars == <<timeout, timeout_calls, timeout_got>>

\* the state of the plugins resource
pvars == <<plugin_defs, plugins_resource, client_attrs, ppc>>

\* the state of fit_to_cols
fvars == <<what, indent, cols, lines, fpc>>

\* the objects of one raw method and of its descriptors
ovars == <<objects, raw_params, descriptors, generated>>

xvars == <<lvars, tvars, pvars, fvars, ovars>>

vars == <<avars, cvars, xvars>>

----------------------------------------------------------------------------
(* Python string operations *)

\* the value None, different from every string
None == <<"None">>

\* the characters \w matches (the documents use lower case names)
WordChars ==
    {"a","b","c","d","e","f","g","h","i","j","k","l","m","n","o","p","q",
     "r","s","t","u","v","w","x","y","z","0","1","2","3","4","5","6","7",
     "8","9","_"}

Min(S) == CHOOSE x \in S : \A y \in S : x <= y

Max(S) == CHOOSE x \in S : \A y \in S : x >= y

\* str.startswith
StartsWith(s, p) == Len(s) >= Len(p) /\ SubSeq(s, 1, Len(p)) = p

\* str.endswith
EndsWith(s, p) == Len(s) >= Len(p) /\ SubSeq(s, Len(s) - Len(p) + 1, Len(s)) = p

\* s[n:]
Drop(s, n) == SubSeq(s, n + 1, Len(s))

Positions(s, c) == {i \in 1..Len(s) : s[i] = c}

\* str.count of a single character
Count(s, c) == Cardinality(Positions(s, c))

\* str.replace of one character by another
Replace(s, a, b) == [i \in 1..Len(s) |-> IF s[i] = a THEN b ELSE s[i]]

\* first index >= i holding c, or Len(s)+1: the end of a run of [^c]
RunEnd(s, i, c) == Min({j \in i..Len(s) : s[j] = c} \cup {Len(s) + 1})

\* s.split(c, n)[-1]
SplitLast(s, c, n) ==
    LET P == Positions(s, c) IN
    IF P = {} THEN s
    ELSE IF Cardinality(P) >= n
         THEN Drop(s, CHOOSE p \in P : Cardinality({q \in P : q < p}) = n - 1)
         ELSE Drop(s, Max(P))

\* sep.join(s.rsplit(c, 1))
RSplitJoin(s, c, sep) ==
    LET P == Positions(s, c) IN
    IF P = {} THEN s
    ELSE SubSeq(s, 1, Max(P) - 1) \o sep \o Drop(s, Max(P))

\* re.sub('_:[^/]+', '', s), scanning from index i
RECURSIVE SubParamTokens(_, _)
SubParamTokens(s, i) ==
    IF i > Len(s) THEN <<>>
    ELSE IF s[i] = "_" /\ i + 2 <= Len(s) /\ s[i+1] = ":" /\ s[i+2] # "/"
         THEN SubParamTokens(s, RunEnd(s, i + 2, "/"))
         ELSE <<s[i]>> \o SubParamTokens(s, i + 1)

\* re.findall('/:([^/]+)(?:/|$)', s), scanning from index i: a match consumes
\* the slash that ends it, so the next match is searched after that slash
RECURSIVE FindUrlParams(_, _)
FindUrlParams(s, i) ==
    IF i > Len(s) THEN <<>>
    ELSE IF s[i] = "/" /\ i + 2 <= Len(s) /\ s[i+1] = ":" /\ s[i+2] # "/"
         THEN LET e == RunEnd(s, i + 2, "/") IN
              <<SubSeq(s, i + 2, e - 1)>> \o FindUrlParams(s, e + 1)
         ELSE FindUrlParams(s, i + 1)

\* the names matched by Resource._params_reg, ":([^/]+)", from index i
RECURSIVE TemplateMarkers(_, _)
TemplateMarkers(s, i) ==
    IF i > Len(s) THEN <<>>
    ELSE IF s[i] = ":" /\ i + 1 <= Len(s) /\ s[i+1] # "/"
         THEN LET e == RunEnd(s, i + 1, "/") IN
              <<SubSeq(s, i + 1, e - 1)>> \o TemplateMarkers(s, e)
         ELSE TemplateMarkers(s, i + 1)

Range(f) == {f[i] : i \in DOMAIN f}

----------------------------------------------------------------------------
(* MethodAPIDescription *)

\* the maximal run of \w characters of s starting at index i
WordRun(s, i) ==
    SubSeq(s, i, Min({j \in i..Len(s) : s[j] \notin WordChars} \cup {Len(s) + 1}) - 1)

\* parse_resource_from_url with the pattern '^/api/(?P<resource>\w+).*'
parse_resource_from_urlUnversioned(url) ==
    IF url = <<"/","a","p","i">> THEN <<"a","p","i">>
    ELSE IF ~StartsWith(url, <<"/","a","p","i">>) THEN None
    ELSE LET rest == Drop(url, 4) IN
         IF Len(rest) >= 2 /\ rest[1] = "/" /\ rest[2] \in WordChars
         THEN WordRun(rest, 2)
         ELSE None

\* resource_pattern = '^/api(/v[12])?/(?P<resource>\w+).*'
parse_resource_from_url(url) ==
    IF url = <<"/","a","p","i">> THEN <<"a","p","i">>
    ELSE IF ~StartsWith(url, <<"/","a","p","i">>) THEN None
    ELSE LET rest == Drop(url, 4)
             versioned == /\ Len(rest) >= 5
                          /\ rest[1] = "/" /\ rest[2] = "v" /\ rest[3] \in {"1", "2"}
                          /\ rest[4] = "/" /\ rest[5] \in WordChars
             plain == Len(rest) >= 2 /\ rest[1] = "/" /\ rest[2] \in WordChars
         IN IF versioned THEN WordRun(rest, 5)
            ELSE IF plain THEN WordRun(rest, 2)
            ELSE None

\* BaseName without the test of line 166: the branch of lines 167-180 for every URL
CompoundName(url, method_name) ==
    LET b1 == Drop(Replace(SplitLast(url, "/", 3), "/", "_"), 1)
        b2 == IF StartsWith(b1, <<":">>) THEN SplitLast(b1, "_", Len(b1) + 1) ELSE b1
        b3 == SubParamTokens(b2, 1)
        b4 == IF EndsWith(b3, <<"_">>) THEN SubSeq(b3, 1, Len(b3) - 1) ELSE b3
    IN RSplitJoin(b4, "_", <<"_">> \o method_name)

\* the name before the declaring resource is prefixed (lines 166-182)
BaseName(url, method_name) ==
    IF Count(url, ":") > 1
    THEN LET b1 == Drop(Replace(SplitLast(url, "/", 3), "/", "_"), 1)
             b2 == IF StartsWith(b1, <<":">>) THEN SplitLast(b1, "_", Len(b1) + 1) ELSE b1
             b3 == SubParamTokens(b2, 1)
             b4 == IF EndsWith(b3, <<"_">>) THEN SubSeq(b3, 1, Len(b3) - 1) ELSE b3
         IN RSplitJoin(b4, "_", <<"_">> \o method_name)
    ELSE method_name

\* _get_name without the prefix of line 184
get_nameUnprefixed(_apipie_resource, resource, url, method_name) ==
    BaseName(url, method_name)

\* MethodAPIDescription._get_name
get_name(_apipie_resource, resource, url, method_name) ==
    IF _apipie_resource # resource
    THEN _apipie_resource \o <<"_">> \o BaseName(url, method_name)
    ELSE BaseName(url, method_name)

\* MethodAPIDescription.__init__
MethodAPIDescription(resource_name, method, api) ==
    LET r == parse_resource_from_url(api.api_url)
        res == IF r = None THEN <<>> ELSE r
    IN [_apipie_resource |-> resource_name,
        method      |-> method,
        url         |-> api.api_url,
        url_params  |-> FindUrlParams(api.api_url, 1),
        params      |-> method.params,
        resource    |-> res,
        name        |-> get_name(resource_name, res, api.api_url, method.name),
        http_method |-> api.http_method]

----------------------------------------------------------------------------
(* The definition documents *)

MaxMethods == 2

API == <<"/","a","p","i">>

UrlA == API \o <<"/","a">>

UrlAi == API \o <<"/","a","/",":","i">>

UrlB == API \o <<"/","b">>

UrlCidj == API \o <<"/","c","/",":","i","/","d","/",":","j">>

GET == <<"G","E","T">>

POST == <<"P","O","S","T">>

PUT == <<"P","U","T">>

DELETE == <<"D","E","L","E","T","E">>

Api(url, verb) == [api_url |-> url, http_method |-> verb]

Param(name, required) == [name |-> name, required |-> required]

Method(name, params, apis) == [name |-> name, params |-> params, apis |-> apis]

\* the apipie methods a resource section is built from
MethodPool ==
    { Method(<<"x">>, <<>>, <<Api(UrlA, GET)>>),
      Method(<<"x">>, <<Param(<<"i">>, FALSE)>>,
             <<Api(UrlAi, GET), Api(UrlB, GET)>>),
      Method(<<"a","_","x">>, <<>>,
             <<Api(UrlB, POST), Api(UrlCidj, DELETE)>>) }

\* the resource names of the document, lower case as apipie writes them
DocResources == {<<"a">>, <<"b">>}

MethodLists == UNION {[1..n -> MethodPool] : n \in 0..MaxMethods}

Orders == {o \in [1..Cardinality(DocResources) -> DocResources] :
              \A i, j \in DOMAIN o : i # j => o[i] # o[j]}

\* str.lower on the characters of the documents
lower(s) ==
    [i \in 1..Len(s) |->
        CASE s[i] = "A" -> "a" [] s[i] = "B" -> "b" [] s[i] = "C" -> "c"
          [] s[i] = "D" -> "d" [] s[i] = "E" -> "e" [] s[i] = "G" -> "g"
          [] s[i] = "L" -> "l" [] s[i] = "O" -> "o" [] s[i] = "P" -> "p"
          [] s[i] = "S" -> "s" [] s[i] = "T" -> "t" [] s[i] = "U" -> "u"
          [] OTHER -> s[i]]

\* the (method, api) pairs of a resource section in the order of the two
\* loops of parse_resource_definition (lines 330 and 335)
RECURSIVE Flatten(_)
Flatten(methods) ==
    IF methods = <<>> THEN <<>>
    ELSE [i \in 1..Len(Head(methods).apis) |->
             [method |-> Head(methods), api |-> Head(methods).apis[i]]]
         \o Flatten(Tail(methods))

\* the descriptors parse_resource_definition builds for a resource section
Descriptors(res_name, methods) ==
    LET f == Flatten(methods) IN
    [i \in 1..Len(f) |-> MethodAPIDescription(res_name, f[i].method, f[i].api)]

----------------------------------------------------------------------------
(* parse_resource_definition *)

\* new_dict as created at lines 315-321; methods holds the generated
\* functions by name, each represented by the descriptor in its defs
NewDict ==
    [_own_methods |-> {}, _conflicting_methods |-> <<>>, methods |-> <<>>]

\* BindOwn without the test of line 374: the later definition replaces the first
BindOwnOverwrite(nd, api) ==
    [nd EXCEPT !._own_methods = @ \cup {api.name},
               !.methods = (api.name :> api) @@ [n \in DOMAIN @ \ {api.name} |-> @[n]]]

\* the own-method branch, lines 372-399
BindOwn(nd, api) ==
    IF api.name \in nd._own_methods
    THEN [nd EXCEPT !._conflicting_methods = Append(@, api)]
    ELSE [nd EXCEPT !._own_methods = @ \cup {api.name},
                    !.methods = (api.name :> api) @@ @]

\* the foreign-method branch, lines 338-370: the pair <<new_dict, foreign_methods>>
StoreForeign(nd, fm, api) ==
    LET functions == IF api.resource \in DOMAIN fm THEN fm[api.resource] ELSE <<>> IN
    IF api.name \in DOMAIN functions
    THEN <<[nd EXCEPT !._conflicting_methods = Append(@, api)], fm>>
    ELSE <<nd, (api.resource :> ((api.name :> api) @@ functions)) @@ fm>>

\* ParseOne without the test of line 338: every method is bound as an own method
ParseOneAllOwn(nd, fm, resource_name, api) == <<BindOwn(nd, api), fm>>

\* one iteration of the loop at line 335
ParseOne(nd, fm, resource_name, api) ==
    IF api.resource # resource_name
    THEN StoreForeign(nd, fm, api)
    ELSE <<BindOwn(nd, api), fm>>

----------------------------------------------------------------------------
(* Foreman._generate_api_defs *)

\* lines 817-843: new_resource enters resource_defs
MergeOwn(defs, res_name, new_resource) ==
    IF res_name \in DOMAIN defs
    THEN \* line 827 discards the union, keys starting with '_' are skipped,
         \* a name already in old_res is kept
         [defs EXCEPT ![res_name].methods = @ @@ new_resource.methods]
    ELSE (res_name :> new_resource) @@ defs

\* the names of f_methods that line 854 lets through for one resource
ForeignAccepted(defs, f_res_name, f_methods) ==
    {n \in DOMAIN f_methods :
        ~(f_res_name \in DOMAIN defs /\ n \in DOMAIN defs[f_res_name].methods)}

\* lines 845-864: the foreign methods enter resource_defs
MergeForeign(defs, extra_foreign_methods) ==
    [r \in DOMAIN defs \cup DOMAIN extra_foreign_methods |->
        LET methods == IF r \in DOMAIN defs THEN defs[r]
                       ELSE [_own_methods |-> {}, _conflicting_methods |-> <<>>,
                             methods |-> <<>>]
        IN IF r \notin DOMAIN extra_foreign_methods THEN methods
           ELSE LET ok == ForeignAccepted(defs, r, extra_foreign_methods[r]) IN
                [methods EXCEPT
                    !.methods = @ @@ [n \in ok |-> extra_foreign_methods[r][n]],
                    !._own_methods = @ \cup ok]]

\* parse_resource_definition from a given point of its loops
RECURSIVE ParseRest(_, _, _, _)
ParseRest(nd, fm, resource_name, descs) ==
    IF descs = <<>> THEN <<nd, fm>>
    ELSE LET r == ParseOne(nd, fm, resource_name, Head(descs)) IN
         ParseRest(r[1], r[2], resource_name, Tail(descs))

\* parse_resource_definition: the pair <<new_dict, foreign_methods>> of line 401
parse_resource_definition(resource_name, methods) ==
    ParseRest(NewDict, <<>>, resource_name, Descriptors(resource_name, methods))

\* the loop of lines 812-864 over the resources in the order o, from defs
RECURSIVE GenerateFrom(_, _, _)
GenerateFrom(defs, d, o) ==
    IF o = <<>> THEN defs
    ELSE LET p == parse_resource_definition(lower(Head(o)), d[Head(o)]) IN
         GenerateFrom(MergeForeign(MergeOwn(defs, Head(o), p[1]), p[2]), d, Tail(o))

\* the loop of lines 868-879 without the test of line 875
AttachResourcesAll(defs) == DOMAIN defs

\* lines 866-879: the resources that become attributes of the client
AttachResources(defs) == {r \in DOMAIN defs : defs[r]._own_methods # {}}

CurRes == order[res_idx]

\* the descriptors of the call parse_resource_definition(res_name.lower(), res_dct)
CurDescriptors == Descriptors(lower(CurRes), data[CurRes])

\* no function is being generated or called
CallIdle ==
    /\ OLD_REQ = FALSE
    /\ method_api = None
    /\ as_global = FALSE
    /\ func = None
    /\ cpc = "idle"
    /\ args = <<>>
    /\ _vars_ = <<>>
    /\ _url = None
    /\ _kwargs = <<>>
    /\ primitive_calls = <<>>
    /\ primitive_result = None
    /\ result = None
    /\ session_requests = <<>>
    /\ response = None

\* _get_defs is not running
LoaderIdle ==
    /\ use_cache = FALSE
    /\ strict_cache = FALSE
    /\ version = <<>>
    /\ cache_dirs = <<>>
    /\ remote_ok = FALSE
    /\ lpc = "idle"
    /\ lookups = <<>>
    /\ defs_found = None

\* no client with timeouts exists
TimeoutIdle ==
    /\ timeout = <<>>
    /\ timeout_calls = <<>>
    /\ timeout_got = None

\* no plugin is loaded
PluginsIdle ==
    /\ plugin_defs = <<>>
    /\ plugins_resource = <<>>
    /\ client_attrs = <<>>
    /\ ppc = "idle"

\* fit_to_cols is not running
FitIdle ==
    /\ what = <<>>
    /\ indent = <<>>
    /\ cols = 0
    /\ lines = <<>>
    /\ fpc = "idle"

\* no raw method is in memory
ObjectsIdle ==
    /\ objects = <<>>
    /\ raw_params = <<>>
    /\ descriptors = <<>>
    /\ generated = {}

Init ==
    /\ CallIdle
    /\ LoaderIdle /\ TimeoutIdle /\ PluginsIdle /\ FitIdle /\ ObjectsIdle
    /\ data \in [DocResources -> MethodLists]
    /\ order \in Orders
    /\ pc = "parse"
    /\ res_idx = 1
    /\ api_idx = 1
    /\ new_dict = NewDict
    /\ foreign_methods = <<>>
    /\ resource_defs = <<>>
    /\ attached = {}
    /\ parsed = {}
    /\ foreign_bound = {}

\* one API variant of the resource being parsed (lines 335-399)
ParseApi ==
    /\ pc = "parse"
    /\ api_idx <= Len(CurDescriptors)
    /\ LET r == ParseOne(new_dict, foreign_methods, lower(CurRes),
                         CurDescriptors[api_idx])
       IN /\ new_dict' = r[1]
          /\ foreign_methods' = r[2]
    /\ api_idx' = api_idx + 1
    /\ UNCHANGED <<data, order, pc, res_idx, resource_defs, attached, parsed,
                   foreign_bound, cvars, xvars>>

\* parse_resource_definition returns (line 401)
ParseReturn ==
    /\ pc = "parse"
    /\ api_idx > Len(CurDescriptors)
    /\ pc' = "merge_own"
    /\ parsed' = parsed \cup {CurRes}
    /\ UNCHANGED <<data, order, res_idx, api_idx, new_dict, foreign_methods,
                   resource_defs, attached, foreign_bound, cvars, xvars>>

\* lines 820-843
MergeOwnStep ==
    /\ pc = "merge_own"
    /\ resource_defs' = MergeOwn(resource_defs, CurRes, new_dict)
    /\ pc' = "merge_foreign"
    /\ UNCHANGED <<data, order, res_idx, api_idx, new_dict, foreign_methods,
                   attached, parsed, foreign_bound, cvars, xvars>>

\* lines 847-864, then the next resource of the loop at line 812
MergeForeignStep ==
    /\ pc = "merge_foreign"
    /\ resource_defs' = MergeForeign(resource_defs, foreign_methods)
    /\ foreign_bound' = foreign_bound \cup
           UNION {{<<r, n>> : n \in ForeignAccepted(resource_defs, r, foreign_methods[r])} :
                    r \in DOMAIN foreign_methods}
    /\ IF res_idx < Len(order)
       THEN /\ res_idx' = res_idx + 1
            /\ pc' = "parse"
       ELSE /\ res_idx' = res_idx
            /\ pc' = "attach"
    /\ api_idx' = 1
    /\ new_dict' = NewDict
    /\ foreign_methods' = <<>>
    /\ UNCHANGED <<data, order, attached, parsed, cvars, xvars>>

\* lines 866-879
Attach ==
    /\ pc = "attach"
    /\ attached' = AttachResources(resource_defs)
    /\ pc' = "done"
    /\ UNCHANGED <<data, order, res_idx, api_idx, new_dict, foreign_methods,
                   resource_defs, parsed, foreign_bound, cvars, xvars>>

Next == ParseApi \/ ParseReturn \/ MergeOwnStep \/ MergeForeignStep \/ Attach

Spec == Init /\ [][Next]_vars

----------------------------------------------------------------------------
(* MethodAPIDescription.generate_func and the function it generates *)

\* params[p.name] = p on a dict kept as the list of its values in insertion order
DictSet(d, p) ==
    IF \E i \in DOMAIN d : d[i].name = p.name
    THEN [i \in DOMAIN d |-> IF d[i].name = p.name THEN p ELSE d[i]]
    ELSE Append(d, p)

\* dict((param['name'], param) for param in self.params), lines 204-207
RECURSIVE DictFrom(_, _)
DictFrom(d, ps) ==
    IF ps = <<>> THEN d ELSE DictFrom(DictSet(d, Head(ps)), Tail(ps))

\* one iteration of the loop at line 211
ForceUrlParam(d, name) ==
    IF \E i \in DOMAIN d : d[i].name = name
    THEN [i \in DOMAIN d |->
             IF d[i].name = name THEN [d[i] EXCEPT !.required = TRUE] ELSE d[i]]
    ELSE Append(d, [name |-> name, required |-> TRUE])

\* lines 209-221: the URL parameters are added or forced to required
RECURSIVE WithUrlParams(_, _)
WithUrlParams(d, url_params) ==
    IF url_params = <<>> THEN d
    ELSE WithUrlParams(ForceUrlParam(d, Head(url_params)), Tail(url_params))

IsRequired(p) == p.required

NotRequired(p) == ~p.required

\* lines 223-230: req_params + nonreq_params
OrderedParams(method_params, url_params) ==
    LET params == WithUrlParams(DictFrom(<<>>, method_params), url_params) IN
    SelectSeq(params, IsRequired) \o SelectSeq(params, NotRequired)

\* lines 234-238
LocalName(name) ==
    IF name = <<"e","x","c","e","p","t">> THEN name \o <<"_">> ELSE name

\* ParamsDef with "%s=None" for every parameter
ParamsDefAllOptional(ps) ==
    [i \in DOMAIN ps |-> [local_name |-> LocalName(ps[i].name), required |-> FALSE]]

\* params_def, lines 241-244: a parameter without default is required by the call
ParamsDef(ps) ==
    [i \in DOMAIN ps |->
        [local_name |-> LocalName(ps[i].name), required |-> ps[i].required]]

\* do_<verb> for every verb
PrimitiveNameAlwaysGet(http_method) == <<"d","o","_","g","e","t">>

\* 'do_{http_method}' with http_method=self.http_method.lower(), lines 256-258
PrimitiveName(http_method) == <<"d","o","_">> \o lower(http_method)

\* generate_func(): what the generated code holds
generate_func(d) ==
    LET ps == OrderedParams(d.params, d.url_params)
        keywords == [i \in DOMAIN ps |-> LocalName(ps[i].name)]
    IN [name |-> d.name,
        params_def |-> ParamsDef(ps),
        keywords |-> keywords,
        original_names |->
            [k \in Range(keywords) |->
                ps[Max({i \in DOMAIN ps : keywords[i] = k})].name],
        url |-> d.url,
        url_params |-> d.url_params,
        primitive |-> PrimitiveName(d.http_method),
        defs |-> d]

Except == <<"e","x","c","e","p","t">>

Except_ == <<"e","x","c","e","p","t","_">>

Class == <<"c","l","a","s","s">>

\* reserved words of Python, which are no parameter names in a def statement
PythonKeywords ==
    { Class, Except, <<"f","o","r">>, <<"f","r","o","m">>, <<"i","f">>,
      <<"i","n">>, <<"i","s">>, <<"l","a","m","b","d","a">> }

\* six.exec_(code), line 277: the def statement of func_head is a SyntaxError
\* when a parameter is a reserved word or two parameters have one name
ExecFails(d) ==
    LET ps == OrderedParams(d.params, d.url_params)
        keywords == [i \in DOMAIN ps |-> LocalName(ps[i].name)]
    IN \/ \E i \in DOMAIN keywords : keywords[i] \in PythonKeywords
       \/ \E i, j \in DOMAIN keywords : i # j /\ keywords[i] = keywords[j]

\* MethodAPIDescription.get_global_method_name
get_global_method_name(d) == d.resource \o <<"_">> \o Replace(d.name, ".", "_")

\* the name func_head defines (line 247); the global name is never empty
FuncHeadName(d, global) == IF global THEN get_global_method_name(d) ELSE d.name

\* function = locals()[self.name], line 279: KeyError unless the def statement
\* defined the name self.name
LookupFails(d, global) == FuncHeadName(d, global) # d.name

\* the parameter name the def statement of line 246 declares for a local
\* name: the tokenizer of Python drops the blanks around it
RECURSIVE Identifier(_)
Identifier(name) ==
    IF name # <<>> /\ Head(name) = " " THEN Identifier(Tail(name))
    ELSE IF name # <<>> /\ name[Len(name)] = " "
         THEN Identifier(SubSeq(name, 1, Len(name) - 1))
         ELSE name

\* the call raises TypeError: a parameter without default gets no argument
MissingArgument(f, a) ==
    \E i \in DOMAIN f.params_def :
        f.params_def[i].required /\ Identifier(f.params_def[i].local_name) \notin DOMAIN a

\* locals() at line 251: the parameters, None where a default applies
Locals(f, a) ==
    [k \in {Identifier(f.params_def[i].local_name) : i \in DOMAIN f.params_def} |->
        IF k \in DOMAIN a THEN a[k] ELSE None]

\* the value False, different from every string
False == <<"False">>

\* str(value)
Str(v) ==
    IF v = None THEN <<"N","o","n","e">>
    ELSE IF v = False THEN <<"F","a","l","s","e">>
    ELSE v

\* url.format(**kwargs) on the template whose markers were turned into {name}
RECURSIVE Format(_, _, _)
Format(s, i, kwargs) ==
    IF i > Len(s) THEN <<>>
    ELSE IF s[i] = ":" /\ i + 1 <= Len(s) /\ s[i+1] # "/"
         THEN LET e == RunEnd(s, i + 1, "/") IN
              Str(kwargs[SubSeq(s, i + 1, e - 1)]) \o Format(s, e, kwargs)
         ELSE <<s[i]>> \o Format(s, i + 1, kwargs)

\* Resource._fill_url: the filled URL, or KeyError when vars_ lacks a
\* parameter or the template holds a marker that is not in params
fill_url(url, vars_, params) ==
    IF \E i \in DOMAIN params : params[i] \notin DOMAIN vars_
    THEN [ok |-> FALSE, url |-> None]
    ELSE LET kwargs == [k \in Range(params) |-> vars_[k]] IN
         IF \E m \in Range(TemplateMarkers(url, 1)) : m \notin DOMAIN kwargs
         THEN [ok |-> FALSE, url |-> None]
         ELSE [ok |-> TRUE, url |-> Format(url, 1, kwargs)]

\* truth value of an argument: None, '' and False are false
Truthy(v) == v # None /\ v # <<>> /\ v # False

\* _kwargs, lines 254-255
RequestKwargs(f, vars_) ==
    LET given == {k \in Range(f.keywords) : Truthy(vars_[k])} IN
    [n \in {f.original_names[k] : k \in given} |->
        vars_[CHOOSE k \in given : f.original_names[k] = n]]

Return(v) == [kind |-> "return", value |-> v, exc |-> "", res |-> None]

Raise(e, r) == [kind |-> "raise", value |-> None, exc |-> e, res |-> r]

Response(status_code, is_json, json_empty) ==
    [status_code |-> status_code, is_json |-> is_json, json_empty |-> json_empty]

\* the HTTP responses of the server: the status, whether the body is JSON and
\* whether the decoded body is an empty value such as []
Responses ==
    { Response(200, TRUE, FALSE), Response(200, TRUE, TRUE), Response(200, FALSE, FALSE),
      Response(299, FALSE, FALSE), Response(199, FALSE, FALSE),
      Response(300, FALSE, FALSE), Response(404, FALSE, FALSE),
      Response(406, FALSE, FALSE), Response(500, FALSE, FALSE) }

\* line 893, OLD_REQ and res.json or res.json(): with requests 0.x res.json is
\* a property holding the decoded body, None when the body is no JSON; when it
\* is false the expression goes on to call it, which raises TypeError; with
\* later releases res.json() raises ValueError on a body that is no JSON
DecodeBody(res) ==
    IF OLD_REQ
    THEN IF res.is_json /\ ~res.json_empty
         THEN Return(<<"json", res>>)
         ELSE Raise("TypeError", None)
    ELSE IF res.is_json THEN Return(<<"json", res>>) ELSE Return(<<"text", res>>)

\* _process_request_result without the test of line 884
process_request_resultRaise404(res) ==
    IF res.status_code < 200 \/ res.status_code >= 300
    THEN IF res.status_code = 406 THEN Raise("Unacceptable", res)
         ELSE Raise("ForemanException", res)
    ELSE DecodeBody(res)

\* Foreman._process_request_result
process_request_result(res) ==
    IF res.status_code < 200 \/ res.status_code >= 300
    THEN IF res.status_code = 404 THEN Return(<<>>)
         ELSE IF res.status_code = 406 THEN Raise("Unacceptable", res)
         ELSE Raise("ForemanException", res)
    ELSE DecodeBody(res)

\* self.url of the client
ForemanUrl == <<"h",":","/","/","f">>

\* the request a verb primitive makes on self.session (lines 902-907, 915-921,
\* 929-935, 943-947): its verb, its URL and the mapping it carries, as query
\* parameters (params=kwargs) or as body (data=json.dumps(kwargs))
SessionRequest(primitive, url, kwargs) ==
    CASE primitive = <<"d","o","_","g","e","t">> ->
            [method |-> GET, url |-> ForemanUrl \o url,
             carries |-> "params", payload |-> kwargs]
      [] primitive = <<"d","o","_","p","o","s","t">> ->
            [method |-> POST, url |-> ForemanUrl \o url,
             carries |-> "data", payload |-> kwargs]
      [] primitive = <<"d","o","_","p","u","t">> ->
            [method |-> PUT, url |-> ForemanUrl \o url,
             carries |-> "data", payload |-> kwargs]
      [] primitive = <<"d","o","_","d","e","l","e","t","e">> ->
            [method |-> DELETE, url |-> ForemanUrl \o url,
             carries |-> "nothing", payload |-> <<>>]

\* the verb primitives of Foreman, lines 897-948
Primitives ==
    { <<"d","o","_","g","e","t">>, <<"d","o","_","p","o","s","t">>,
      <<"d","o","_","p","u","t">>, <<"d","o","_","d","e","l","e","t","e">> }

\* the values a caller passes
ArgValues == {None, <<>>, False, <<"7">>}

Id == <<"i","d">>

UrlAid == API \o <<"/","a","/",":","i","d">>

UrlAiid == API \o <<"/","a","/",":","i","/",":","i","d">>

UrlAexcept == API \o <<"/","a","/",":">> \o Except

CallUrls == {UrlA, UrlAid, UrlAiid, UrlCidj, UrlAexcept}

Verbs == {GET, POST, PUT, DELETE}

\* declared parameter lists: id omitted, optional or required, and
\* parameters named after reserved words of Python
CallParamLists ==
    { <<>>,
      <<Param(Id, FALSE), Param(<<"q">>, FALSE)>>,
      <<Param(Id, TRUE)>>,
      <<Param(Except, FALSE)>>,
      <<Param(Class, FALSE)>>,
      <<Param(Except, FALSE), Param(Except_, TRUE)>> }

\* the descriptors functions are generated for, declared by resource a
CallDescriptors ==
    { MethodAPIDescription(<<"a">>, Method(<<"x">>, ps, <<Api(u, v)>>), Api(u, v)) :
        u \in CallUrls, v \in Verbs, ps \in CallParamLists }

\* _generate_api_defs is not running
AssemblyIdle ==
    /\ data = <<>>
    /\ order = <<>>
    /\ pc = "idle"
    /\ res_idx = 0
    /\ api_idx = 0
    /\ new_dict = NewDict
    /\ foreign_methods = <<>>
    /\ resource_defs = <<>>
    /\ attached = {}
    /\ parsed = {}
    /\ foreign_bound = {}

InitCall ==
    /\ AssemblyIdle
    /\ LoaderIdle /\ TimeoutIdle /\ PluginsIdle /\ FitIdle /\ ObjectsIdle
    /\ OLD_REQ \in BOOLEAN
    /\ method_api \in CallDescriptors
    /\ as_global \in BOOLEAN
    /\ func = None
    /\ cpc = "new"
    /\ args = <<>>
    /\ _vars_ = <<>>
    /\ _url = None
    /\ _kwargs = <<>>
    /\ primitive_calls = <<>>
    /\ primitive_result = None
    /\ result = None
    /\ session_requests = <<>>
    /\ response = None

\* generate_func, lines 191-282
GenerateFunc ==
    /\ cpc = "new"
    /\ IF ExecFails(method_api)
       THEN /\ result' = Raise("SyntaxError", None)
            /\ cpc' = "not_generated"
            /\ UNCHANGED func
       ELSE IF LookupFails(method_api, as_global)
       THEN /\ result' = Raise("KeyError", None)
            /\ cpc' = "not_generated"
            /\ UNCHANGED func
       ELSE /\ func' = generate_func(method_api)
            /\ cpc' = "generated"
            /\ UNCHANGED result
    /\ UNCHANGED <<avars, xvars, OLD_REQ, session_requests, response, method_api,
                   as_global, args, _vars_, _url, _kwargs,
                   primitive_calls, primitive_result>>

\* the generated function is called with the arguments a (line 246), line 251
Call ==
    /\ cpc = "generated"
    /\ \E names \in SUBSET {Identifier(k) : k \in Range(func.keywords)} :
         \E a \in [names -> ArgValues] :
            /\ args' = a
            /\ IF MissingArgument(func, a)
               THEN /\ result' = Raise("TypeError", None)
                    /\ cpc' = "raised"
                    /\ UNCHANGED _vars_
               ELSE /\ _vars_' = Locals(func, a)
                    /\ cpc' = "called"
                    /\ UNCHANGED result
    /\ UNCHANGED <<avars, xvars, OLD_REQ, session_requests, response, method_api,
                   as_global, func, _url, _kwargs, primitive_calls,
                   primitive_result>>

\* line 252
FillUrl ==
    /\ cpc = "called"
    /\ LET r == fill_url(func.url, _vars_, func.url_params) IN
       IF r.ok
       THEN /\ _url' = r.url
            /\ cpc' = "filled"
            /\ UNCHANGED result
       ELSE /\ result' = Raise("KeyError", None)
            /\ cpc' = "raised"
            /\ UNCHANGED _url
    /\ UNCHANGED <<avars, xvars, OLD_REQ, session_requests, response, method_api,
                   as_global, func, args, _vars_, _kwargs, primitive_calls,
                   primitive_result>>

\* lines 253-255: _vars_[k] raises KeyError for a keyword that is no key of
\* locals()
BuildKwargs ==
    /\ cpc = "filled"
    /\ IF \E k \in Range(func.keywords) : k \notin DOMAIN _vars_
       THEN /\ result' = Raise("KeyError", None)
            /\ cpc' = "raised"
            /\ UNCHANGED _kwargs
       ELSE /\ _kwargs' = RequestKwargs(func, _vars_)
            /\ cpc' = "built"
            /\ UNCHANGED result
    /\ UNCHANGED <<avars, xvars, OLD_REQ, session_requests, response, method_api,
                   as_global, func, args, _vars_, _url, primitive_calls,
                   primitive_result>>

\* self._foreman.do_<verb>(_url, _kwargs) of line 256, the server answering res
Dispatch ==
    /\ cpc = "built"
    /\ IF func.primitive \in Primitives
       THEN \E res \in Responses :
               /\ primitive_calls' = Append(primitive_calls,
                      [primitive |-> func.primitive, url |-> _url, kwargs |-> _kwargs])
               /\ session_requests' = Append(session_requests,
                      SessionRequest(func.primitive, _url, _kwargs))
               /\ response' = res
               /\ primitive_result' = process_request_result(res)
               /\ cpc' = "dispatched"
               /\ UNCHANGED result
       ELSE /\ result' = Raise("AttributeError", None)
            /\ cpc' = "raised"
            /\ UNCHANGED <<primitive_calls, primitive_result, session_requests,
                           response>>
    /\ UNCHANGED <<avars, xvars, OLD_REQ, method_api, as_global, func, args, _vars_, _url,
                   _kwargs>>

\* the return of line 256: the primitive's result or exception goes to the caller
ReturnResult ==
    /\ cpc = "dispatched"
    /\ result' = primitive_result
    /\ cpc' = IF primitive_result.kind = "raise" THEN "raised" ELSE "returned"
    /\ UNCHANGED <<avars, xvars, OLD_REQ, session_requests, response, method_api,
                   as_global, func, args, _vars_, _url, _kwargs,
                   primitive_calls, primitive_result>>

NextCall == GenerateFunc \/ Call \/ FillUrl \/ BuildKwargs \/ Dispatch \/ ReturnResult

SpecCall == InitCall /\ [][NextCall]_vars

----------------------------------------------------------------------------
(* The derivation of resource and method names *)

Myres == <<"m","y","r","e","s">>

Hosts == <<"h","o","s","t","s">>

Index == <<"i","n","d","e","x">>

Show == <<"s","h","o","w">>

V1 == <<"v","1">>

V2 == <<"v","2">>

UrlV1B == API \o <<"/">> \o V1 \o <<"/","b">>

UrlV2Bi == API \o <<"/">> \o V2 \o <<"/","b","/",":","i">>

UrlV1 == API \o <<"/">> \o V1

UrlV2Cidj == API \o <<"/">> \o V2 \o <<"/","c","/",":","i","/","d","/",":","j">>

\* the example of the docstring of _get_name
UrlMyresSubres ==
    API \o <<"/","m","y","r","e","s","/",":","m","y","r","e","s","_","i","d","/","s","u","b","r","e","s","/",":","s","u","b","r","e","s","_","i","d","/","s","u","b","r","e","s","2">>

UrlHostsInterfaces ==
    API \o <<"/","h","o","s","t","s","/",":","h","o","s","t","_","i","d","/","i","n","t","e","r","f","a","c","e","s","/",":","i","d">>

UrlHostsId == API \o <<"/","h","o","s","t","s","/",":","i","d">>

NameUrls ==
    { API, UrlA, UrlAi, UrlB, UrlAiid, UrlCidj, UrlV1, UrlV1B, UrlV2Bi, UrlV2Cidj,
      UrlMyresSubres, UrlHostsInterfaces, UrlHostsId }

\* the declaring resources
NameResources == {<<"a">>, <<"b">>, <<"a","p","i">>, Myres, Hosts}

\* the logical method names
NameMethods == {<<"x">>, Index, Show}

\* the declared parameter lists
NameParamLists == {<<>>, <<Param(Id, FALSE)>>}

\* no descriptor has been built
InitName ==
    /\ AssemblyIdle /\ CallIdle
    /\ LoaderIdle /\ TimeoutIdle /\ PluginsIdle /\ FitIdle /\ ObjectsIdle

\* MethodAPIDescription(resource, method, api), line 336
Describe ==
    /\ cpc = "idle"
    /\ \E r \in NameResources, m \in NameMethods, u \in NameUrls, ps \in NameParamLists :
          method_api' = MethodAPIDescription(r, Method(m, ps, <<Api(u, GET)>>), Api(u, GET))
    /\ cpc' = "new"
    /\ UNCHANGED <<avars, xvars, OLD_REQ, session_requests, response, as_global, func, args,
                   _vars_, _url, _kwargs, primitive_calls, primitive_result, result>>

NextName == Describe

SpecName == InitName /\ [][NextName]_vars

----------------------------------------------------------------------------
(* MetaForeman: the plugins resource *)

MaxItems == 2

PATCH == <<"P","A","T","C","H">>

Plugins == <<"p","l","u","g","i","n","s">>

\* one endpoint of a DEFS item: its name and its parameters
Endpoint(fname, params) == [fname |-> fname, params |-> params]

\* one item of the DEFS of a plugin module: a verb and its endpoints
DefsItem(http_method, funcs) == [http_method |-> http_method, funcs |-> funcs]

\* MetaForeman.convert_plugin_def
convert_plugin_def(http_method, funcs) ==
    IF http_method \notin {GET, PUT, POST, DELETE} THEN <<>>
    ELSE [i \in DOMAIN funcs |->
             Method(funcs[i].fname, funcs[i].params,
                    <<Api(API \o <<"/">> \o funcs[i].fname, http_method)>>)]

\* entries['methods'] after the loops of lines 462-474
RECURSIVE PluginMethods(_)
PluginMethods(defs) ==
    IF defs = <<>> THEN <<>>
    ELSE convert_plugin_def(Head(defs).http_method, Head(defs).funcs)
         \o PluginMethods(Tail(defs))

\* resource_data after lines 486-491: every foreign method dict holds one
\* function, as its name is derived from the endpoint name alone
ResourceData(defs) ==
    LET p == parse_resource_definition(Plugins, PluginMethods(defs))
        foreigns == p[2]
    IN [p[1] EXCEPT
           !.methods = [mname \in DOMAIN foreigns |->
                           foreigns[mname][CHOOSE n \in DOMAIN foreigns[mname] : TRUE]]
                       @@ @,
           !._own_methods = @ \cup DOMAIN foreigns]

\* the methods Resource.__init__ also binds under <method>_<class>, line 431
CommonMethods ==
    {<<"i","n","d","e","x">>, <<"s","h","o","w">>, <<"u","p","d","a","t","e">>,
     <<"d","e","s","t","r","o","y">>, <<"c","r","e","a","t","e">>}

\* the attributes _init sets on the client, lines 476-484, after
\* Resource.__init__, lines 431-438
PluginAttributes(resource_data) ==
    LET methods == resource_data.methods
        common == {n \in CommonMethods : n \in DOMAIN methods}
        public == {n \in DOMAIN methods : n # <<>> /\ Head(n) # "_"}
    IN [n \in public |-> methods[n]]
       @@ [a \in {n \o <<"_">> \o Plugins : n \in common} |->
              methods[CHOOSE n \in common : n \o <<"_">> \o Plugins = a]]

\* the endpoints of the plugin modules: a parameter declared with a blank
\* after its name, as foreman_reserve declares one, and a required parameter
Endpoints ==
    {Endpoint(fname, params) :
        fname \in {<<"e","p">>, <<"e","q">>},
        params \in {<<Param(<<"q"," ">>, FALSE)>>, <<Param(Id, TRUE)>>}}

DefsItems ==
    {DefsItem(http_method, <<e>>) : http_method \in {GET, POST, PATCH}, e \in Endpoints}

InitPlugins ==
    /\ AssemblyIdle /\ CallIdle
    /\ LoaderIdle /\ TimeoutIdle /\ FitIdle /\ ObjectsIdle
    /\ plugin_defs \in UNION {[1..n -> DefsItems] : n \in 1..MaxItems}
    /\ plugins_resource = <<>>
    /\ client_attrs = <<>>
    /\ ppc = "start"

\* MetaForeman.__new__
LoadPlugins ==
    /\ ppc = "start"
    /\ plugins_resource' = ResourceData(plugin_defs)
    /\ ppc' = "class"
    /\ UNCHANGED <<avars, cvars, lvars, tvars, fvars, ovars, plugin_defs, client_attrs>>

\* self.plugins = self._plugins_resources(self), line 610
InstantiatePlugins ==
    /\ ppc = "class"
    /\ client_attrs' = PluginAttributes(plugins_resource)
    /\ ppc' = "ready"
    /\ UNCHANGED <<avars, cvars, lvars, tvars, fvars, ovars, plugin_defs, plugins_resource>>

\* the caller takes one attribute of the client: the function generate_func
\* returned for its descriptor at line 370
GetPluginAttribute ==
    /\ ppc = "ready"
    /\ cpc = "idle"
    /\ \E name \in DOMAIN client_attrs :
          /\ method_api' = client_attrs[name]
          /\ func' = generate_func(client_attrs[name])
    /\ cpc' = "generated"
    /\ UNCHANGED <<avars, xvars, OLD_REQ, session_requests, response, as_global, args,
                   _vars_, _url, _kwargs, primitive_calls, primitive_result, result>>

NextPlugins ==
    \/ LoadPlugins \/ InstantiatePlugins \/ GetPluginAttribute
    \/ Call \/ FillUrl \/ BuildKwargs \/ Dispatch \/ ReturnResult

SpecPlugins == InitPlugins /\ [][NextPlugins]_vars

----------------------------------------------------------------------------
(* Foreman._get_defs, _get_local_defs and _get_remote_defs *)

MaxFiles == 1

\* parsed versions: major, minor and patch number
Versions == {<<major, minor, patch>> : major \in {1, 2}, minor \in {0, 1}, patch \in {0, 1}}

\* the order of Python on tuples of integers
VersionLess(v, w) ==
    \E i \in 1..3 : v[i] < w[i] /\ \A j \in 1..(i - 1) : v[j] = w[j]

\* sorted(files_version, key=lambda x: x[1]), line 702
RECURSIVE SortedFiles(_)
SortedFiles(files) ==
    IF files = {} THEN <<>>
    ELSE LET least == CHOOSE f \in files : \A g \in files : g = f \/ VersionLess(f, g)
         IN <<least>> \o SortedFiles(files \ {least})

\* the loop of lines 702-709 over the sorted files from index i:
\* the exact match it returns, or last_major_match
RECURSIVE ScanFiles(_, _, _, _)
ScanFiles(files, i, v, last_major_match) ==
    IF i > Len(files) THEN [exact |-> FALSE, file |-> last_major_match]
    ELSE IF files[i] = v THEN [exact |-> TRUE, file |-> files[i]]
    ELSE LET last == IF SubSeq(files[i], 1, 2) = SubSeq(v, 1, 2)
                     THEN files[i] ELSE last_major_match
         IN IF files[i][1] > v[1]
            THEN [exact |-> FALSE, file |-> last]
            ELSE ScanFiles(files, i + 1, v, last)

\* the loop of lines 690-709 over the cache directories from index d:
\* last_major_match is set anew for each directory (line 701)
RECURSIVE ScanDirs(_, _, _, _)
ScanDirs(dirs, d, v, last_major_match) ==
    IF d > Len(dirs) THEN [exact |-> FALSE, file |-> last_major_match]
    ELSE LET r == ScanFiles(SortedFiles(dirs[d]), 1, v, None) IN
         IF r.exact THEN r ELSE ScanDirs(dirs, d + 1, v, r.file)

Found(source, file) == [kind |-> "return", source |-> source, file |-> file]

VersionException(source) ==
    [kind |-> "raise", source |-> source, file |-> None]

\* Foreman._get_local_defs
get_local_defs(v, dirs, strict) ==
    LET r == ScanDirs(dirs, 1, v, None) IN
    IF r.exact THEN Found("local", r.file)
    ELSE IF r.file # None
         THEN IF strict THEN VersionException("local") ELSE Found("local", r.file)
         ELSE VersionException("local")

\* Foreman._get_remote_defs: the definitions of the server for self.version
get_remote_defs(v, ok) ==
    IF ok THEN Found("remote", v) ELSE VersionException("remote")

\* the sets of definition files a cache directory holds
FileSets == {files \in SUBSET Versions : Cardinality(files) <= MaxFiles}

InitDefs ==
    /\ AssemblyIdle /\ CallIdle
    /\ TimeoutIdle /\ PluginsIdle /\ FitIdle /\ ObjectsIdle
    /\ use_cache \in BOOLEAN
    /\ strict_cache \in BOOLEAN
    /\ version \in Versions
    /\ cache_dirs \in [1..2 -> FileSets]
    /\ remote_ok \in BOOLEAN
    /\ lpc = "start"
    /\ lookups = <<>>
    /\ defs_found = None

\* lines 787-792: the local lookup, whose ForemanVersionException is swallowed
GetLocalDefs ==
    /\ lpc = "start"
    /\ use_cache
    /\ LET r == get_local_defs(version, cache_dirs, strict_cache) IN
       /\ lookups' = Append(lookups, r)
       /\ IF r.kind = "return"
          THEN defs_found' = r /\ lpc' = "done"
          ELSE defs_found' = defs_found /\ lpc' = "remote"
    /\ UNCHANGED <<avars, cvars, tvars, pvars, fvars, ovars, use_cache, strict_cache,
                   version, cache_dirs, remote_ok>>

\* line 787 with use_cache false
SkipLocalDefs ==
    /\ lpc = "start"
    /\ ~use_cache
    /\ lpc' = "remote"
    /\ UNCHANGED <<avars, cvars, tvars, pvars, fvars, ovars, use_cache, strict_cache,
                   version, cache_dirs, remote_ok, lookups, defs_found>>

\* lines 793-796: the remote lookup; on success the definitions are written to
\* the first cache directory unless the write fails (lines 748-768)
GetRemoteDefs ==
    /\ lpc = "remote"
    /\ LET r == get_remote_defs(version, remote_ok) IN
       /\ lookups' = Append(lookups, r)
       /\ defs_found' = r
       /\ IF r.kind = "return"
          THEN /\ lpc' = "done"
               /\ \E written \in BOOLEAN :
                     cache_dirs' = IF written
                                   THEN [cache_dirs EXCEPT ![1] = @ \cup {version}]
                                   ELSE cache_dirs
          ELSE /\ lpc' = "failed"
               /\ UNCHANGED cache_dirs
    /\ UNCHANGED <<avars, cvars, tvars, pvars, fvars, ovars, use_cache, strict_cache,
                   version, remote_ok>>

NextDefs == GetLocalDefs \/ SkipLocalDefs \/ GetRemoteDefs

SpecDefs == InitDefs /\ [][NextDefs]_vars

----------------------------------------------------------------------------
(* Foreman.get_timeout, set_timeout and unset_timeout *)

MaxCalls == 3

\* timeout or None: None and 0 are false
OrNone(v) == IF v = None \/ v = <<"0">> THEN None ELSE v

\* self.timeout[method] = value
TimeoutSet(d, method, value) ==
    [k \in DOMAIN d \cup {method} |-> IF k = method THEN value ELSE d[k]]

\* Foreman.set_timeout
set_timeout(d, value, method) == TimeoutSet(d, method, OrNone(value))

\* Foreman.unset_timeout: pop, with the KeyError of a missing key swallowed
unset_timeout(d, method) == [k \in DOMAIN d \ {method} |-> d[k]]

\* Foreman.get_timeout: the default self.timeout['DEFAULT'] is evaluated
\* before dict.get is called
get_timeout(d, method) ==
    IF "DEFAULT" \notin DOMAIN d THEN Raise("KeyError", None)
    ELSE IF method \in DOMAIN d THEN Return(d[method])
    ELSE Return(d["DEFAULT"])

\* set_timeout(value, method) unless value is None, lines 587-592
SetUnlessNone(d, value, method) ==
    IF value # None THEN set_timeout(d, value, method) ELSE d

\* the timeouts Foreman.__init__ leaves, lines 585-592
InitTimeout(t, t_post, t_delete, t_put) ==
    SetUnlessNone(
        SetUnlessNone(
            SetUnlessNone([k \in {"DEFAULT"} |-> OrNone(t)], t_post, "POST"),
            t_delete, "DELETE"),
        t_put, "PUT")

TimeoutCall(op, method, value) == [op |-> op, method |-> method, value |-> value]

\* the calls of set_timeout that Foreman.__init__ makes, preceded by the
\* assignment of the default
InitTimeoutCalls(t, t_post, t_delete, t_put) ==
    <<TimeoutCall("init", "DEFAULT", t)>>
    \o (IF t_post # None THEN <<TimeoutCall("init", "POST", t_post)>> ELSE <<>>)
    \o (IF t_delete # None THEN <<TimeoutCall("init", "DELETE", t_delete)>> ELSE <<>>)
    \o (IF t_put # None THEN <<TimeoutCall("init", "PUT", t_put)>> ELSE <<>>)

\* the request methods the caller names
TimeoutMethods == {"DEFAULT", "GET", "POST"}

\* the calls made by the caller since the construction
CallerCalls == Cardinality({i \in DOMAIN timeout_calls : timeout_calls[i].op # "init"})

NoTimeoutGot == [kind |-> "none", value |-> None, exc |-> "", res |-> None]

InitTimeouts ==
    /\ AssemblyIdle /\ CallIdle
    /\ LoaderIdle /\ PluginsIdle /\ FitIdle /\ ObjectsIdle
    /\ \E t \in {None, <<"0">>, <<"6","0">>}, t_post \in {None, <<"6","0","0">>},
          t_delete \in {None, <<"6","0","0">>}, t_put \in {None} :
          /\ timeout = InitTimeout(t, t_post, t_delete, t_put)
          /\ timeout_calls = InitTimeoutCalls(t, t_post, t_delete, t_put)
    /\ timeout_got = NoTimeoutGot

SetTimeout ==
    /\ CallerCalls < MaxCalls
    /\ \E value \in {<<"0">>, <<"6","0">>}, method \in TimeoutMethods :
          /\ timeout' = set_timeout(timeout, value, method)
          /\ timeout_calls' = Append(timeout_calls, TimeoutCall("set", method, value))
    /\ timeout_got' = NoTimeoutGot
    /\ UNCHANGED <<avars, cvars, lvars, pvars, fvars, ovars>>

UnsetTimeout ==
    /\ CallerCalls < MaxCalls
    /\ \E method \in TimeoutMethods :
          /\ timeout' = unset_timeout(timeout, method)
          /\ timeout_calls' = Append(timeout_calls, TimeoutCall("unset", method, None))
    /\ timeout_got' = NoTimeoutGot
    /\ UNCHANGED <<avars, cvars, lvars, pvars, fvars, ovars>>

GetTimeout ==
    /\ timeout_got = NoTimeoutGot
    /\ \E method \in TimeoutMethods :
          /\ timeout_got' = get_timeout(timeout, method)
          /\ timeout_calls' = Append(timeout_calls, TimeoutCall("get", method, None))
    /\ UNCHANGED <<avars, cvars, lvars, pvars, fvars, ovars, timeout>>

NextTimeouts == SetTimeout \/ UnsetTimeout \/ GetTimeout

SpecTimeouts == InitTimeouts /\ [][NextTimeouts]_vars

----------------------------------------------------------------------------
(* scripts/version_manager.py: fit_to_cols *)

MaxLen == 14

MaxLines == 4

\* the width the callers pass for cols
Cols == 12

\* extra_indent of a continuation line, line 80
ExtraIndent == <<" "," "," "," "," "," "," "," "," "," ">>

\* what.lstrip()
RECURSIVE lstrip(_)
lstrip(s) == IF s # <<>> /\ Head(s) = " " THEN lstrip(Tail(s)) ELSE s

\* ' ' in s
HasSpace(s) == \E i \in DOMAIN s : s[i] = " "

\* the condition of the loop, line 72
MustWrap(s, free_cols) == Len(s) > free_cols /\ HasSpace(lstrip(s))

\* one iteration of the loop, lines 73-85: the line appended and the text left
WrapOnce(s, ind, free_cols) ==
    LET head == SubSeq(s, 1, free_cols) IN
    IF s[free_cols + 1] # " "
    THEN IF HasSpace(head)
         THEN LET prev_space == Max({i \in DOMAIN head : head[i] = " "}) IN
              [line |-> ind \o SubSeq(s, 1, prev_space - 1),
               what |-> ExtraIndent \o SubSeq(s, prev_space + 1, Len(s))]
         ELSE [line |-> ind \o head \o <<"-">>,
               what |-> SubSeq(s, free_cols + 1, Len(s))]
    ELSE [line |-> ind \o head,
          what |-> SubSeq(s, free_cols + 1, Len(s))]

\* the texts of at most n characters made of spaces and of one letter
Texts(n) == UNION {[1..k -> {" ", "a"}] : k \in 0..n}

InitFit ==
    /\ AssemblyIdle /\ CallIdle
    /\ LoaderIdle /\ TimeoutIdle /\ PluginsIdle /\ ObjectsIdle
    /\ what \in Texts(MaxLen)
    /\ indent \in {<<>>, <<" ">>}
    /\ cols = Cols
    /\ lines = <<>>
    /\ fpc = "loop"

\* lines 72-85
Wrap ==
    /\ fpc = "loop"
    /\ MustWrap(what, cols - Len(indent))
    /\ Len(lines) < MaxLines
    /\ LET w == WrapOnce(what, indent, cols - Len(indent)) IN
       /\ lines' = Append(lines, w.line)
       /\ what' = w.what
    /\ UNCHANGED <<avars, cvars, lvars, tvars, pvars, ovars, indent, cols, fpc>>

\* lines 86-87: the last line; the lines are returned joined by newlines
FitReturn ==
    /\ fpc = "loop"
    /\ ~MustWrap(what, cols - Len(indent))
    /\ lines' = Append(lines, indent \o what)
    /\ fpc' = "returned"
    /\ UNCHANGED <<avars, cvars, lvars, tvars, pvars, ovars, what, indent, cols>>

NextFit == Wrap \/ FitReturn

SpecFit == InitFit /\ [][NextFit]_vars

----------------------------------------------------------------------------
(* The parameter dicts of a raw method and of its MethodAPIDescription objects *)

MaxParams == 2

MaxApis == 2

\* the heap with the same dicts and the same addresses, nothing copied
deepcopyShared(heap, ids) == [objects |-> heap, params |-> ids]

\* copy.deepcopy(method)['params'], lines 122 and 126: new dicts, equal to the
\* dicts at the addresses ids, appended to the heap
deepcopy(heap, ids) ==
    [objects |-> heap \o [i \in 1..Len(ids) |-> heap[ids[i]]],
     params  |-> [i \in 1..Len(ids) |-> Len(heap) + i]]

\* the dicts at the addresses ids
ParamsAt(heap, ids) == [i \in DOMAIN ids |-> heap[ids[i]]]

\* the loop of lines 211-221 on the dicts of self.params: params maps a name
\* to the last dict of that name, whose required flag is set; a URL parameter
\* that is not declared gets a dict known to generate_func only
RECURSIVE ForceRequired(_, _, _)
ForceRequired(heap, ids, url_params) ==
    IF url_params = <<>> THEN heap
    ELSE LET named == {i \in DOMAIN ids : heap[ids[i]].name = Head(url_params)}
             forced == IF named = {} THEN heap
                       ELSE [heap EXCEPT ![ids[Max(named)]].required = TRUE]
         IN ForceRequired(forced, ids, Tail(url_params))

\* the declared parameter lists of the raw method
RawParamLists ==
    UNION {[1..n -> {Param(name, required) : name \in {Id, <<"q">>}, required \in BOOLEAN}] :
              n \in 0..MaxParams}

InitObjects ==
    /\ AssemblyIdle /\ CallIdle
    /\ LoaderIdle /\ TimeoutIdle /\ PluginsIdle /\ FitIdle
    /\ objects \in RawParamLists
    /\ raw_params = [i \in DOMAIN objects |-> i]
    /\ descriptors = <<>>
    /\ generated = {}

\* MethodAPIDescription(resource_name, method, api) for the next API variant
\* of the raw method, line 336
NewDescription ==
    /\ Len(descriptors) < MaxApis
    /\ \E url \in {UrlA, UrlAid, UrlAiid} :
          LET copy == deepcopy(objects, raw_params) IN
          /\ objects' = copy.objects
          /\ descriptors' = Append(descriptors,
                 [url |-> url, url_params |-> FindUrlParams(url, 1),
                  params |-> copy.params])
    /\ UNCHANGED <<avars, cvars, lvars, tvars, pvars, fvars, raw_params, generated>>

\* generate_func of one descriptor, lines 204-221
GenerateParams ==
    /\ \E d \in DOMAIN descriptors \ generated :
          /\ objects' = ForceRequired(objects, descriptors[d].params,
                                      descriptors[d].url_params)
          /\ generated' = generated \cup {d}
    /\ UNCHANGED <<avars, cvars, lvars, tvars, pvars, fvars, raw_params, descriptors>>

NextObjects == NewDescription \/ GenerateParams

SpecObjects == InitObjects /\ [][NextObjects]_vars

----------------------------------------------------------------------------
(* Properties of the assembly *)

IsOwn(d) == d.resource = d._apipie_resource

IsForeign(d) == d.resource # d._apipie_resource

\* every descriptor the document gives rise to
AllDescriptors ==
    UNION {Range(Descriptors(lower(r), data[r])) : r \in DocResources}

\* the variants of the document, as <<resource, position>>
AllVariants ==
    UNION {{<<r, i>> : i \in DOMAIN Descriptors(lower(r), data[r])} : r \in DocResources}

Desc(v) == Descriptors(lower(v[1]), data[v[1]])[v[2]]

\* the own variants among the first k of D that repeat an earlier own name
RECURSIVE OwnLosers(_, _)
OwnLosers(D, k) ==
    IF k = 0 THEN <<>>
    ELSE OwnLosers(D, k - 1) \o
         (IF IsOwn(D[k]) /\ \E j \in 1..(k-1) : IsOwn(D[j]) /\ D[j].name = D[k].name
          THEN <<D[k]>> ELSE <<>>)

\* C1: while and after a resource is parsed, each own name is bound to the
\* first own variant (in declaration order) that derives it, and exactly the
\* later own variants of a name are in _conflicting_methods, in order
C1_FirstOwnDefinitionWins ==
    pc \in {"parse", "merge_own"} =>
        LET D == CurDescriptors
            k == api_idx - 1
        IN /\ \A i \in 1..k : IsOwn(D[i]) =>
                 LET first == Min({j \in 1..i : IsOwn(D[j]) /\ D[j].name = D[i].name})
                 IN /\ D[i].name \in DOMAIN new_dict.methods
                    /\ new_dict.methods[D[i].name] = D[first]
           /\ SelectSeq(new_dict._conflicting_methods, IsOwn) = OwnLosers(D, k)

\* a resource has been parsed in which a later own variant with another URL
\* lost its name to the first one
C1_Witness ==
    /\ pc = "merge_own"
    /\ \E i, j \in DOMAIN CurDescriptors :
          /\ j < i
          /\ IsOwn(CurDescriptors[i]) /\ IsOwn(CurDescriptors[j])
          /\ CurDescriptors[i].name = CurDescriptors[j].name
          /\ CurDescriptors[i].url # CurDescriptors[j].url
          /\ new_dict.methods[CurDescriptors[i].name] = CurDescriptors[j]

\* C2: a foreign method is never bound in the namespace of the resource that
\* declares it, and once the client is built its name is bound in the resource
\* of its URL, to itself unless another variant derives that name for that resource
C2_ForeignBoundInOwningResource ==
    /\ \A n \in DOMAIN new_dict.methods : IsOwn(new_dict.methods[n])
    /\ \A r \in DOMAIN resource_defs : \A n \in DOMAIN resource_defs[r].methods :
          LET d == resource_defs[r].methods[n] IN
          IsForeign(d) => r # d._apipie_resource
    /\ pc = "done" =>
          \A v \in AllVariants :
             LET d == Desc(v) IN
             IsForeign(d) =>
                /\ d.resource \in attached
                /\ d.name \in DOMAIN resource_defs[d.resource].methods
                /\ \/ resource_defs[d.resource].methods[d.name] = d
                   \/ \E w \in AllVariants \ {v} :
                         /\ Desc(w).resource = d.resource
                         /\ Desc(w).name = d.name

\* the client is built and a foreign method is bound in a resource of the
\* document that also has own methods
C2_Witness ==
    /\ pc = "done"
    /\ \E v \in AllVariants :
          /\ IsForeign(Desc(v))
          /\ Desc(v).resource \in DocResources
          /\ resource_defs[Desc(v).resource].methods[Desc(v).name] = Desc(v)
          /\ \E n \in DOMAIN resource_defs[Desc(v).resource].methods :
                IsOwn(resource_defs[Desc(v).resource].methods[n])

\* C3: once the client is built, a name that an own method and a foreign
\* method both derive for a resource is bound to the own method
C3_OwnMethodWinsOverForeign ==
    pc = "done" =>
        \A v, w \in AllVariants :
           (/\ IsOwn(Desc(v)) /\ IsForeign(Desc(w))
            /\ Desc(w).resource = Desc(v).resource
            /\ Desc(w).name = Desc(v).name)
           => IsOwn(resource_defs[Desc(v).resource].methods[Desc(v).name])

\* C4: the assembled resources (bound names, descriptors, _own_methods and
\* conflict lists) are the same for every iteration order of the document
C4_OrderIndependent ==
    pc = "done" => \A o \in Orders : GenerateFrom(<<>>, data, o) = resource_defs

\* C5: a foreign method is bound only after every resource has been parsed
C5_ForeignMergedAfterAllParsed ==
    foreign_bound # {} => parsed = DocResources

\* C6: once the client is built, a name derived more than once for a resource
\* is recorded in some _conflicting_methods list
C6_EveryLoserRecorded ==
    pc = "done" =>
        \A v, w \in AllVariants :
           (v # w /\ Desc(v).resource = Desc(w).resource /\ Desc(v).name = Desc(w).name)
           => \E r \in DOMAIN resource_defs :
                 \E i \in DOMAIN resource_defs[r]._conflicting_methods :
                    /\ resource_defs[r]._conflicting_methods[i].name = Desc(v).name
                    /\ resource_defs[r]._conflicting_methods[i].resource = Desc(v).resource

\* the step-by-step assembly computes the loop of lines 812-864
StepsComputeGenerate ==
    pc \in {"attach", "done"} => resource_defs = GenerateFrom(<<>>, data, order)

C20_OwnMethodsAreBoundNames ==
    pc = "done" =>
        \A r \in attached :
            resource_defs[r]._own_methods = DOMAIN resource_defs[r].methods

----------------------------------------------------------------------------
(* Properties of the generated functions *)

\* the positional markers of the template of the function
UrlMarkers == Range(TemplateMarkers(method_api.url, 1))

\* the call has started: the caller has passed its arguments
Invoked == cpc \notin {"idle", "new", "not_generated", "generated"}

\* C7: every positional marker of the URL template is an argument without
\* default of the generated function
C7_UrlMarkersRequired ==
    cpc \notin {"idle", "new", "not_generated"} =>
        \A m \in UrlMarkers :
            \E i \in DOMAIN func.params_def :
                /\ func.params_def[i].local_name = LocalName(m)
                /\ func.params_def[i].required

\* C8: a call that passes no id to a function whose template holds :id never
\* gets past the filling of the URL: it raises (TypeError for the missing
\* argument, KeyError from the template) and calls no primitive
C8_MissingIdFails ==
    (Invoked /\ Id \in UrlMarkers /\ Id \notin DOMAIN args) =>
        /\ cpc \in {"called", "raised"}
        /\ primitive_calls = <<>>
        /\ cpc = "raised" => result.exc \in {"TypeError", "KeyError"}

\* a call that passes other arguments but no id has raised
C8_Witness ==
    /\ cpc = "raised"
    /\ Id \in UrlMarkers
    /\ Id \notin DOMAIN args
    /\ args # <<>>
    /\ result.exc = "TypeError"
    /\ primitive_calls = <<>>

\* C9: a call that supplies every required argument never fails in the
\* filling of the URL, and the URL given to the primitive is the template
\* with every marker replaced by the string of its argument
C9_UrlFilled ==
    /\ (cpc = "raised" /\ ~MissingArgument(func, args)) => result.exc # "KeyError"
    /\ \A i \in DOMAIN primitive_calls :
          /\ TemplateMarkers(primitive_calls[i].url, 1) = <<>>
          /\ primitive_calls[i].url = Format(method_api.url, 1, _vars_)

\* the primitive each HTTP verb stands for
VerbPrimitive ==
    (GET :> <<"d","o","_","g","e","t">>) @@
    (POST :> <<"d","o","_","p","o","s","t">>) @@
    (PUT :> <<"d","o","_","p","u","t">>) @@
    (DELETE :> <<"d","o","_","d","e","l","e","t","e">>)

\* C10: a call makes at most one call of a primitive; once its URL and request
\* mapping are built it calls exactly the primitive of its verb, with that URL
\* and mapping, and what the primitive returns or raises is what the call
\* returns or raises
C10_DispatchByVerb ==
    /\ Len(primitive_calls) <= 1
    /\ cpc \in {"dispatched", "returned"} =>
          primitive_calls =
              <<[primitive |-> VerbPrimitive[method_api.http_method],
                 url |-> _url, kwargs |-> _kwargs]>>
    /\ cpc = "built" => primitive_calls = <<>>
    /\ (cpc \in {"returned", "raised"} /\ primitive_calls # <<>>) =>
          result = primitive_result

\* a DELETE function with a filled marker has returned its primitive's result
C10_Witness ==
    /\ cpc = "returned"
    /\ method_api.http_method = DELETE
    /\ UrlMarkers # {}
    /\ primitive_calls[1].primitive = <<"d","o","_","d","e","l","e","t","e">>
    /\ primitive_calls[1].kwargs # <<>>
    /\ result = primitive_result

\* the API parameter names of the function: the declared ones and the URL
\* parameters found by line 126
ApiParamNames ==
    {method_api.params[i].name : i \in DOMAIN method_api.params}
        \cup Range(method_api.url_params)

\* the request mapping has been built
MappingBuilt == cpc \in {"built", "dispatched", "returned"}

\* the caller supplied a value for the argument k that is neither absent nor empty
Supplied(k) == k \in DOMAIN args /\ args[k] # None /\ args[k] # <<>>

\* C11: the request mapping holds, under the API name of the parameter, the
\* value of every argument the caller supplied with a value that is neither
\* absent (None) nor empty (''), and holds nothing else
C11_RequestMapping ==
    MappingBuilt =>
        /\ DOMAIN _kwargs \subseteq ApiParamNames
        /\ \A n \in ApiParamNames :
              IF Supplied(LocalName(n))
              THEN n \in DOMAIN _kwargs /\ _kwargs[n] = args[LocalName(n)]
              ELSE n \notin DOMAIN _kwargs

\* C12: for every method a function is generated whose arguments are no
\* reserved words, distinct parameters have distinct arguments, and every
\* argument is translated back to the name of its parameter
C12_AliasesTotalLossless ==
    (cpc \notin {"idle", "new"} /\ ~as_global) =>
        /\ cpc # "not_generated"
        /\ \A n \in ApiParamNames : LocalName(n) \notin PythonKeywords
        /\ \A n, m \in ApiParamNames : n # m => LocalName(n) # LocalName(m)
        /\ \A n \in ApiParamNames : func.original_names[LocalName(n)] = n

\* C18: the global name of a variant is the resource of its URL, an underscore
\* and the name derived before the declaring resource is prefixed, dots
\* replaced, and generate_func(as_global=True) returns a function of that name
C18_GlobalName ==
    cpc # "idle" =>
        /\ get_global_method_name(method_api) =
              method_api.resource \o <<"_">> \o
                  Replace(BaseName(method_api.url, method_api.method.name), ".", "_")
        /\ (as_global /\ cpc # "new") =>
              /\ cpc # "not_generated"
              /\ func.name = get_global_method_name(method_api)

\* the primitive has made its request and the server has answered
Answered == session_requests # <<>>

\* C21: a GET call whose response has status 404 returns the empty list and
\* raises nothing
C21_NotFoundIsEmpty ==
    (/\ Answered
     /\ session_requests[1].method = GET
     /\ response.status_code = 404)
    => /\ primitive_result.kind = "return"
       /\ primitive_result.value = <<>>
       /\ cpc # "raised"
       /\ cpc = "returned" => result.kind = "return" /\ result.value = <<>>

\* a generated GET function has returned the empty list on a 404
C21_Witness ==
    /\ cpc = "returned"
    /\ method_api.http_method = GET
    /\ Answered
    /\ session_requests[1].method = GET
    /\ response.status_code = 404
    /\ result.kind = "return"
    /\ result.value = <<>>

\* C22: a response with a status outside 200-299 other than 404 makes the
\* primitive raise Unacceptable (406) or ForemanException (any other), with
\* the response in the exception; a response with a 2xx status raises nothing
C22_ErrorStatusRaises ==
    Answered =>
        IF response.status_code >= 200 /\ response.status_code <= 299
        THEN primitive_result.kind = "return"
        ELSE response.status_code # 404 =>
                primitive_result =
                    Raise(IF response.status_code = 406 THEN "Unacceptable"
                          ELSE "ForemanException", response)

\* the distinct elements of a sequence, in the order of their first occurrence
RECURSIVE Distinct(_)
Distinct(s) ==
    IF s = <<>> THEN <<>>
    ELSE LET r == Distinct(SubSeq(s, 1, Len(s) - 1)) IN
         IF s[Len(s)] \in Range(r) THEN r ELSE Append(r, s[Len(s)])

\* C27: url_params holds the positional markers of the template, each name
\* once and in template order, and no two parameters of the generated function
\* have the same name
C27_UrlParamsAreMarkers ==
    cpc # "idle" =>
        /\ method_api.url_params = Distinct(TemplateMarkers(method_api.url, 1))
        /\ cpc \notin {"new", "not_generated"} =>
              \A i, j \in DOMAIN func.keywords :
                  i # j => func.keywords[i] # func.keywords[j]

\* C28: the request a primitive makes carries, as query parameters or as
\* body, every entry of the mapping the primitive was given
C28_MappingTransmitted ==
    \A i \in DOMAIN session_requests :
        \A n \in DOMAIN primitive_calls[i].kwargs :
            /\ session_requests[i].carries \in {"params", "data"}
            /\ n \in DOMAIN session_requests[i].payload
            /\ session_requests[i].payload[n] = primitive_calls[i].kwargs[n]

----------------------------------------------------------------------------
(* Properties of the derived names *)

\* s.split(c)
RECURSIVE Segments(_, _)
Segments(s, c) ==
    IF Positions(s, c) = {} THEN <<s>>
    ELSE LET p == Min(Positions(s, c)) IN
         <<SubSeq(s, 1, p - 1)>> \o Segments(Drop(s, p), c)

\* the path segment that names the resource: the one after /api, or the one
\* after /api/v1 or /api/v2 when there is one; api for /api itself
OwningSegment(url) ==
    LET segs == Segments(url, "/") IN
    IF Len(segs) = 2 THEN segs[2]
    ELSE IF segs[3] \in {V1, V2} /\ Len(segs) >= 4 THEN segs[4]
    ELSE segs[3]

\* sub occurs in s
Contains(s, sub) ==
    \E i \in 1..(Len(s) - Len(sub) + 1) : SubSeq(s, i, i + Len(sub) - 1) = sub

\* the number of positional parameters of the URL of the descriptor
MarkerCount == Len(TemplateMarkers(method_api.url, 1))

\* C13: the resource of a descriptor is the resource segment of its URL,
\* whatever resource declares it and whatever its method and parameters are
C13_ResourceFromUrl ==
    cpc # "idle" => method_api.resource = OwningSegment(method_api.url)

\* a descriptor of /api/v2/b/:i declared by hosts with declared parameters
C13_Witness ==
    /\ cpc = "new"
    /\ method_api.url = UrlV2Bi
    /\ method_api._apipie_resource = Hosts
    /\ method_api.method.name = Show
    /\ method_api.params # <<>>
    /\ method_api.resource = <<"b">>

\* C14: with at most one positional parameter in the URL the name is the
\* method name, prefixed with the declaring resource only for a foreign method
C14_SimpleName ==
    (cpc # "idle" /\ MarkerCount <= 1) =>
        method_api.name =
            IF IsForeign(method_api)
            THEN method_api._apipie_resource \o <<"_">> \o method_api.method.name
            ELSE method_api.method.name

\* an own descriptor with one positional parameter is named after its method
C14_Witness ==
    /\ cpc = "new"
    /\ method_api.url = UrlHostsId
    /\ method_api._apipie_resource = Hosts
    /\ MarkerCount = 1
    /\ method_api.name = Show

\* C15: with more than one positional parameter the name contains the method
\* name, and the URL of the docstring with method index declared by myres
\* gives subres_index_subres2
C15_CompoundName ==
    (cpc # "idle" /\ MarkerCount > 1) =>
        /\ Contains(method_api.name, method_api.method.name)
        /\ (/\ method_api.url = UrlMyresSubres
            /\ method_api._apipie_resource = Myres
            /\ method_api.method.name = Index)
           => method_api.name = <<"s","u","b","r","e","s","_","i","n","d","e","x","_","s","u","b","r","e","s","2">>

\* C16: /api/hosts/:host_id/interfaces/:id with method show declared by hosts
\* is named interfaces_show
C16_InterfacesShow ==
    (/\ cpc # "idle"
     /\ method_api.url = UrlHostsInterfaces
     /\ method_api._apipie_resource = Hosts
     /\ method_api.method.name = Show)
    => method_api.name = <<"i","n","t","e","r","f","a","c","e","s","_","s","h","o","w">>

\* C17: the name is the base name, prefixed with the declaring resource and an
\* underscore exactly when the declaring resource is not the resource of the URL
C17_ForeignPrefix ==
    cpc # "idle" =>
        LET base == BaseName(method_api.url, method_api.method.name) IN
        method_api.name =
            IF method_api._apipie_resource # method_api.resource
            THEN method_api._apipie_resource \o <<"_">> \o base
            ELSE base

\* a descriptor of a nested URL declared by another resource carries the prefix
C17_Witness ==
    /\ cpc = "new"
    /\ method_api.url = UrlV2Cidj
    /\ method_api._apipie_resource = Myres
    /\ method_api.resource = <<"c">>
    /\ MarkerCount = 2
    /\ StartsWith(method_api.name, Myres \o <<"_">>)
    /\ method_api.name # Myres \o <<"_">> \o method_api.method.name

----------------------------------------------------------------------------
(* Properties of the loading of the definitions *)

\* the cached files of the major version of self.version with a lower version
CloseFiles ==
    {f \in UNION Range(cache_dirs) : f[1] = version[1] /\ VersionLess(f, version)}

\* C23: with use_cache the sources are consulted in the order local cache,
\* remote server, closest local file, and the construction fails only when
\* there is no closest local file either
C23_ClosestCachedTriedLast ==
    use_cache =>
        /\ \A i \in DOMAIN lookups :
              lookups[i].source = <<"local", "remote", "local">>[i]
        /\ lpc = "failed" => CloseFiles = {}

\* C24: the local lookup with strict false, when no file has the requested
\* version, returns a file of the same major version and a lower version if
\* some cache directory holds one, and raises only if none does
C24_NonStrictLocalLookup ==
    (/\ lookups # <<>>
     /\ lookups[1].source = "local"
     /\ ~strict_cache
     /\ version \notin UNION Range(cache_dirs))
    => IF CloseFiles # {}
       THEN lookups[1].kind = "return" /\ lookups[1].file \in CloseFiles
       ELSE lookups[1].kind = "raise"

----------------------------------------------------------------------------
(* Properties of the timeouts *)

\* the calls of set_timeout and unset_timeout on the method made so far
TimeoutChanges(method) ==
    {i \in DOMAIN timeout_calls :
        timeout_calls[i].method = method /\ timeout_calls[i].op \in {"init", "set", "unset"}}

\* whether the method has a timeout that was set and not unset since
IsSet(method) ==
    /\ TimeoutChanges(method) # {}
    /\ timeout_calls[Max(TimeoutChanges(method))].op \in {"init", "set"}

LastSet(method) == OrNone(timeout_calls[Max(TimeoutChanges(method))].value)

\* C25: get_timeout succeeds after any calls of set_timeout and unset_timeout,
\* and returns the timeout last set for the method if it was not unset since,
\* the current default otherwise
C25_GetTimeout ==
    timeout_got # NoTimeoutGot =>
        LET method == timeout_calls[Len(timeout_calls)].method IN
        /\ timeout_got.kind = "return"
        /\ IsSet(method) => timeout_got.value = LastSet(method)
        /\ ~IsSet(method) /\ IsSet("DEFAULT") => timeout_got.value = LastSet("DEFAULT")

----------------------------------------------------------------------------
(* Properties of fit_to_cols *)

\* C30: every iteration of the loop of fit_to_cols leaves a text strictly
\* shorter than the text it started from, so that the loop terminates
C30_EachIterationShortens ==
    [][fpc' = "loop" /\ lines' # lines => Len(what') < Len(what)]_vars

----------------------------------------------------------------------------
(* Properties of the parameter dicts *)

\* C29: no step changes the parameter dicts of the raw method, and the
\* generation of a function changes the dicts of no other descriptor: the
\* required flag forced for one API variant is seen by that variant only
C29_RawDocumentUnchanged ==
    [][/\ raw_params' = raw_params
       /\ ParamsAt(objects', raw_params) = ParamsAt(objects, raw_params)
       /\ \A d \in DOMAIN descriptors :
             d \notin generated' \ generated =>
                 ParamsAt(objects', descriptors[d].params)
                     = ParamsAt(objects, descriptors[d].params)]_vars

\* a function was generated with a parameter forced to required that the raw
\* method and another descriptor have as optional
C29_Witness ==
    \E d \in generated, e \in DOMAIN descriptors, i \in DOMAIN raw_params :
        /\ d # e
        /\ objects[descriptors[d].params[i]].required
        /\ ~objects[raw_params[i]].required
        /\ ~objects[descriptors[e].params[i]].required

----------------------------------------------------------------------------
(* Properties of the plugins resource *)

\* the declarations of endpoints in the DEFS of the plugin modules
Declarations ==
    UNION {{[http_method |-> plugin_defs[i].http_method,
             fname |-> plugin_defs[i].funcs[j].fname] : j \in DOMAIN plugin_defs[i].funcs} :
              i \in DOMAIN plugin_defs}

\* C26: every endpoint declared under GET, PUT, POST or DELETE is bound under
\* its name in the plugins resource and as attribute of the client, a call of
\* it that passes its required arguments makes a request with the declared
\* verb to /api/<endpoint>, and an endpoint declared under other verbs only
\* is not bound
C26_PluginEndpointsBound ==
    /\ ppc = "ready" =>
          \A d \in Declarations :
             IF d.http_method \in Verbs
             THEN /\ d.fname \in DOMAIN plugins_resource.methods
                  /\ d.fname \in DOMAIN client_attrs
                  /\ client_attrs[d.fname] = plugins_resource.methods[d.fname]
                  /\ \E e \in Declarations :
                        /\ e.fname = d.fname
                        /\ client_attrs[d.fname].http_method = e.http_method
                        /\ \A o \in Declarations :
                              o.fname = d.fname /\ o.http_method \in Verbs
                                  => o.http_method = e.http_method
             ELSE (\A o \in Declarations : o.fname = d.fname => o.http_method \notin Verbs)
                      => d.fname \notin DOMAIN plugins_resource.methods
    /\ ppc = "ready" /\ cpc = "raised" /\ ~Answered => result.exc = "TypeError"
    /\ ppc = "ready" /\ Answered =>
          /\ session_requests[1].method = method_api.http_method
          /\ session_requests[1].url = ForemanUrl \o API \o <<"/">> \o method_api.method.name

====
